---- MODULE Spec2Model ----
(***************************************************************************)
(* Model of the depth streaming server (src/server.py): the per-connection *)
(* handler with its producer (frame_stream) and consumer (control_loop)    *)
(* tasks, the shared camera handle and the shared ParameterSet.            *)
(*                                                                         *)
(* asyncio runs one task at a time and switches only at an await, so each  *)
(* action below is one run of a task from the await it is suspended at to  *)
(* the next await it reaches; the pc variables name the await a task is    *)
(* suspended at.                                                           *)
(*                                                                         *)
(* Floats are modelled as integers counting thousandths (0.2 is 200, the   *)
(* 1e-3 of _clamp_params is 1).  A float64 addition absorbs an addend      *)
(* smaller than half an ulp of the other operand; FloatAdd models that.    *)
(***************************************************************************)
EXTENDS Integers, Sequences, FiniteSets, TLC

\* ---------------------------------------------------------------- bounds
MaxIndex == 1        \* camera indices a client may ask for are 0..MaxIndex
MaxCount == 2        \* nsent counts the messages written to a session up to this
MaxCaptures == 3     \* frames the capture device delivers in FrameSpec
MaxName == 2         \* characters of a device name or of the name preference
MaxDevs == 2         \* devices of a listing

Sessions == {"v1", "v2"}          \* the viewers that may connect
Devices  == 0 .. MaxIndex

\* ------------------------------------------------------- program constants
DEFAULT_EMA_ALPHA  == 200         \* EMA_ALPHA  default "0.2"
DEFAULT_CLAMP_NEAR == 200         \* CLAMP_NEAR default "0.2"
DEFAULT_CLAMP_FAR  == 1000        \* CLAMP_FAR  default "1.0"
WEBCAM_INDEX       == 0           \* WEBCAM_INDEX default "0"
TARGET_WIDTH       == 640         \* TARGET_WIDTH default "640"
STRIDE             == 2           \* STRIDE default "2"
Epsilon            == 1           \* the 1e-3 of _clamp_params
One                == 1000        \* the 1.0 of _clamp_params
Absorbing          == 1000000     \* stands for 2^44: from there on x + 1e-3 == x

VARIABLES
  TEST_PATTERN,        \* the synthetic-pattern toggle, fixed at startup
  cap,                 \* the camera handle: "none", "open" or "released"
  resolved_index,      \* index of the selected camera
  EMA_ALPHA, CLAMP_NEAR, CLAMP_FAR,    \* the ParameterSet
  camHealth,           \* environment: what a read of an open device yields
  conn,                \* per session: state of the transport
  hpc, ppc, cpc,       \* per session: handler, producer, consumer position
  use_test_fallback,   \* per session: producer's local fallback flag
  nsent,               \* per session: messages written so far (up to MaxCount)
  hmsg, pmsg, cmsg,    \* per session: the message whose send the handler, the
                       \* producer, the consumer is awaiting (NoMsg if none)
  lastOk,              \* the values reported by the latest params_ok, or <<>>
  ema_depth,           \* the smoothed depth array kept between frames (global)
  captures,            \* frames read from the capture device so far
  blob,                \* per session: content of the frame whose send is awaited
  last_capture,        \* per session: the capture its latest real frame came from
  WEBCAM_NAME,         \* the configured name preference (a string of Chars)
  devs,                \* the device listing: a sequence of [idx, name]
  fallback_index,      \* the configured numeric index
  bpc                  \* startup: "boot", "resolved" or "done"

vars == << TEST_PATTERN, cap, resolved_index, EMA_ALPHA, CLAMP_NEAR, CLAMP_FAR,
           camHealth, conn, hpc, ppc, cpc, use_test_fallback, nsent, hmsg,
           pmsg, cmsg, lastOk, ema_depth, captures, blob, last_capture,
           WEBCAM_NAME, devs, fallback_index, bpc >>

frameVars == << ema_depth, captures, blob, last_capture >>
bootVars  == << WEBCAM_NAME, devs, fallback_index, bpc >>
camVars   == << cap, resolved_index >>
paramVars == << EMA_ALPHA, CLAMP_NEAR, CLAMP_FAR >>

\* ------------------------------------------------------------- messages
Msg(t, s, v) == [type |-> t, src |-> s, vals |-> v]

NoMsg          == Msg("none", "", <<>>)
\* struct.pack("<I", 0): header length 0 and nothing after it
HelloMsg       == Msg("hello", "", << 0 >>)
FrameMsg(kind) == Msg("frame", kind, <<>>)

\* mutant of ParamsMsg: the startup configuration is reported, not the live one
ParamsMsgStartup ==
  Msg("params", "", << DEFAULT_EMA_ALPHA, DEFAULT_CLAMP_NEAR, DEFAULT_CLAMP_FAR >>)

\* send_current_params
ParamsMsg == Msg("params", "", << EMA_ALPHA, CLAMP_NEAR, CLAMP_FAR >>)

\* ws.send on an open transport puts one more message on the wire
Written(s) == nsent' = [nsent EXCEPT ![s] = IF @ < MaxCount THEN @ + 1 ELSE @]

Terminated(pc) == pc \in {"returned", "raised", "cancelled"}

\* ema_depth = None
NoEma == [h |-> 0, w |-> 0, v |-> <<>>]

\* no frame is being sent
NoBlob == [kind |-> "none"]

\* ------------------------------------------------------------------ Init
Init ==
  /\ TEST_PATTERN \in BOOLEAN
  /\ resolved_index = WEBCAM_INDEX
  /\ cap \in (IF TEST_PATTERN THEN {"none"} ELSE {"none", "open"})
  /\ EMA_ALPHA  = DEFAULT_EMA_ALPHA
  /\ CLAMP_NEAR = DEFAULT_CLAMP_NEAR
  /\ CLAMP_FAR  = DEFAULT_CLAMP_FAR
  /\ camHealth = "ok"
  /\ conn = [s \in Sessions |-> "none"]
  /\ hpc  = [s \in Sessions |-> "idle"]
  /\ ppc  = [s \in Sessions |-> "none"]
  /\ cpc  = [s \in Sessions |-> "none"]
  /\ use_test_fallback = [s \in Sessions |-> FALSE]
  /\ nsent = [s \in Sessions |-> 0]
  /\ hmsg  = [s \in Sessions |-> NoMsg]
  /\ pmsg  = [s \in Sessions |-> NoMsg]
  /\ cmsg  = [s \in Sessions |-> NoMsg]
  /\ lastOk = <<>>
  /\ ema_depth = NoEma
  /\ captures = 0
  /\ blob = [s \in Sessions |-> NoBlob]
  /\ last_capture = [s \in Sessions |-> 0]
  /\ WEBCAM_NAME = <<>>
  /\ devs = <<>>
  /\ fallback_index = WEBCAM_INDEX
  /\ bpc = "done"

\* ------------------------------------------------------------ environment
sessionVars == << conn, hpc, ppc, cpc, use_test_fallback, nsent, hmsg, pmsg, cmsg >>

\* a viewer connects: websockets accepts and schedules handler(websocket)
Connect(s) ==
  /\ hpc[s] = "idle"
  /\ hpc'  = [hpc EXCEPT ![s] = "accepted"]
  /\ conn' = [conn EXCEPT ![s] = "open"]
  /\ UNCHANGED << TEST_PATTERN, bootVars, frameVars, camVars, paramVars, camHealth, lastOk, ppc, cpc,
                  use_test_fallback, nsent, hmsg, pmsg, cmsg >>

\* the viewer's transport closes, with a close frame ("closed_ok") or without
ClientClose(s, how) ==
  /\ conn[s] = "open"
  /\ conn' = [conn EXCEPT ![s] = how]
  /\ UNCHANGED << TEST_PATTERN, bootVars, frameVars, camVars, paramVars, camHealth, lastOk, hpc, ppc,
                  cpc, use_test_fallback, nsent, hmsg, pmsg, cmsg >>

\* the capture device or the estimator starts or stops failing
EnvCam(h) ==
  /\ ~TEST_PATTERN
  /\ camHealth # h
  /\ camHealth' = h
  /\ UNCHANGED << TEST_PATTERN, bootVars, frameVars, camVars, paramVars, lastOk, sessionVars >>

\* ---------------------------------------------------------------- handler
\* await websocket.send(struct.pack("<I", 0))
HandlerHello(s) ==
  /\ hpc[s] = "accepted"
  /\ IF conn[s] = "open"
       THEN /\ hmsg' = [hmsg EXCEPT ![s] = HelloMsg]
            /\ Written(s)
            /\ hpc' = [hpc EXCEPT ![s] = "hello_sent"]
       ELSE /\ hpc' = [hpc EXCEPT ![s] = "failed"]
            /\ UNCHANGED << hmsg, nsent >>
  /\ UNCHANGED << TEST_PATTERN, bootVars, frameVars, camVars, paramVars, camHealth, lastOk, conn, ppc,
                  cpc, use_test_fallback, pmsg, cmsg >>

\* producer = create_task(frame_stream(..)); consumer = create_task(control_loop(..));
\* await asyncio.wait(...)
SpawnTasks(s) ==
  /\ hmsg' = [hmsg EXCEPT ![s] = NoMsg]
  /\ ppc' = [ppc EXCEPT ![s] = "start"]
  /\ cpc' = [cpc EXCEPT ![s] = "recv"]
  /\ hpc' = [hpc EXCEPT ![s] = "waiting"]

\* mutant of HandlerParams: the tasks are created without announcing the
\* ParameterSet first
HandlerSkipParams(s) ==
  /\ hpc[s] = "hello_sent"
  /\ SpawnTasks(s)
  /\ UNCHANGED << TEST_PATTERN, bootVars, frameVars, camVars, paramVars, camHealth, lastOk, conn,
                  use_test_fallback, nsent, pmsg, cmsg >>

\* the hello send is over; await send_current_params(websocket)
HandlerParams(s) ==
  /\ hpc[s] = "hello_sent"
  /\ \/ /\ conn[s] = "open"
        /\ hmsg' = [hmsg EXCEPT ![s] = ParamsMsg]
        /\ Written(s)
        /\ hpc' = [hpc EXCEPT ![s] = "params_sent"]
        /\ UNCHANGED << ppc, cpc >>
     \/ /\ conn[s] # "open"         \* the hello send raises ConnectionClosed
        /\ hmsg' = [hmsg EXCEPT ![s] = NoMsg]
        /\ hpc' = [hpc EXCEPT ![s] = "failed"]
        /\ UNCHANGED << ppc, cpc, nsent >>
     \/ /\ conn[s] # "open"         \* send_json swallows the failed params send
        /\ SpawnTasks(s)
        /\ UNCHANGED nsent
  /\ UNCHANGED << TEST_PATTERN, bootVars, frameVars, camVars, paramVars, camHealth, lastOk, conn,
                  use_test_fallback, pmsg, cmsg >>

\* the params send is over (send_json swallows its failure); the tasks are created
HandlerSpawn(s) ==
  /\ hpc[s] = "params_sent"
  /\ SpawnTasks(s)
  /\ UNCHANGED << TEST_PATTERN, bootVars, frameVars, camVars, paramVars, camHealth, lastOk, conn,
                  use_test_fallback, nsent, pmsg, cmsg >>

\* asyncio.wait({producer, consumer}, return_when=FIRST_EXCEPTION) returns when
\* a task has raised, or when both are done
WaitReturns(s) ==
  \/ ppc[s] = "raised"
  \/ cpc[s] = "raised"
  \/ Terminated(ppc[s]) /\ Terminated(cpc[s])

\* for task in pending: task.cancel(); the handler returns and websockets
\* closes the connection
HandlerWake(s) ==
  /\ hpc[s] = "waiting"
  /\ WaitReturns(s)
  /\ ppc' = [ppc EXCEPT ![s] = IF Terminated(@) THEN @ ELSE "cancelled"]
  /\ cpc' = [cpc EXCEPT ![s] = IF Terminated(@) THEN @ ELSE "cancelled"]
  /\ pmsg' = [pmsg EXCEPT ![s] = NoMsg]
  /\ cmsg' = [cmsg EXCEPT ![s] = NoMsg]
  /\ hpc' = [hpc EXCEPT ![s] = "done"]
  /\ conn' = [conn EXCEPT ![s] = IF @ = "open" THEN "closed_ok" ELSE @]
  /\ UNCHANGED << TEST_PATTERN, bootVars, frameVars, camVars, paramVars, camHealth, lastOk,
                  use_test_fallback, nsent, hmsg >>

\* --------------------------------------------------------------- producer
\* the awaits of frame_stream that end by a timer: sleep(0.03), sleep(0.01),
\* sleep(0.05)
Sleeping == {"sleep_nocap", "sleep_miss", "sleep_exc"}

\* mutant of Runnable: the producer does not wait for its send to end
RunnableWhileSending == {"start", "ready", "send"}

\* the task can run its next pass: just created, or woken from a sleep
\* (asyncio.sleep(0) leaves it ready at once)
Runnable == {"start", "ready"}

\* mutant of Fallback: the flag is shared by all sessions
FallbackShared(s) == TEST_PATTERN \/ \E t \in Sessions : use_test_fallback[t]

\* use_test_fallback = TEST_PATTERN on entry, the local flag afterwards
Fallback(s) == IF ppc[s] = "start" THEN TEST_PATTERN ELSE use_test_fallback[s]

\* ok, frame = cap.read() and the pipeline behind it
ReadOutcome ==
  IF cap = "released" \/ camHealth = "noframe" THEN "miss"
  ELSE IF camHealth = "raise" THEN "exception"
  ELSE "frame"

\* blob = ...; await websocket.send(blob)
SendFrame(s, kind) ==
  IF conn[s] = "open"
    THEN /\ pmsg' = [pmsg EXCEPT ![s] = FrameMsg(kind)]
         /\ Written(s)
         /\ ppc' = [ppc EXCEPT ![s] = "send"]
    ELSE /\ ppc' = [ppc EXCEPT ![s] = "returned"]   \* except ConnectionClosed: break
         /\ UNCHANGED << pmsg, nsent >>

\* mutant of NoCamera: the producer gives up when there is no camera
NoCameraQuit(s) ==
  /\ ppc' = [ppc EXCEPT ![s] = "returned"]
  /\ use_test_fallback' = [use_test_fallback EXCEPT ![s] = FALSE]

\* if cap is None: await asyncio.sleep(0.03); continue
NoCamera(s) ==
  /\ ppc' = [ppc EXCEPT ![s] = "sleep_nocap"]
  /\ use_test_fallback' = [use_test_fallback EXCEPT ![s] = FALSE]

\* if not ok: await asyncio.sleep(0.01); continue
NoFrame(s) ==
  /\ ppc' = [ppc EXCEPT ![s] = "sleep_miss"]
  /\ use_test_fallback' = [use_test_fallback EXCEPT ![s] = FALSE]

\* mutant of PipelineException: the handler sleeps but does not switch the
\* session to the synthetic generator
PipelineExceptionNoSwitch(s) ==
  /\ ppc' = [ppc EXCEPT ![s] = "sleep_exc"]
  /\ use_test_fallback' = [use_test_fallback EXCEPT ![s] = FALSE]

\* except Exception: use_test_fallback = True; await asyncio.sleep(0.05)
PipelineException(s) ==
  /\ ppc' = [ppc EXCEPT ![s] = "sleep_exc"]
  /\ use_test_fallback' = [use_test_fallback EXCEPT ![s] = TRUE]

\* one pass of the while loop of frame_stream, up to its next await; outcome
\* is what the read and the pipeline behind it yield in this pass
ProducerPass(s, outcome) ==
  /\ ppc[s] \in Runnable
  /\ IF Fallback(s)
       THEN /\ SendFrame(s, "synthetic")
            /\ use_test_fallback' = [use_test_fallback EXCEPT ![s] = TRUE]
       ELSE IF cap = "none"
       THEN NoCamera(s) /\ UNCHANGED << pmsg, nsent >>
       ELSE IF outcome = "miss"
       THEN NoFrame(s) /\ UNCHANGED << pmsg, nsent >>
       ELSE IF outcome = "exception"
       THEN PipelineException(s) /\ UNCHANGED << pmsg, nsent >>
       ELSE /\ SendFrame(s, "real")
            /\ use_test_fallback' = [use_test_fallback EXCEPT ![s] = FALSE]
  /\ UNCHANGED << TEST_PATTERN, bootVars, camVars, paramVars, camHealth, lastOk,
                  conn, hpc, cpc, hmsg, cmsg >>

\* the pass, the content of its frame left out
ProducerIterate(s) ==
  /\ ProducerPass(s, ReadOutcome)
  /\ UNCHANGED frameVars

\* the timer of an asyncio.sleep fires
ProducerWake(s) ==
  /\ ppc[s] \in Sleeping
  /\ ppc' = [ppc EXCEPT ![s] = "ready"]
  /\ UNCHANGED << TEST_PATTERN, bootVars, frameVars, camVars, paramVars, camHealth, lastOk, conn, hpc,
                  cpc, use_test_fallback, nsent, hmsg, pmsg, cmsg >>

\* if use_test_fallback and not TEST_PATTERN: use_test_fallback = False
ProbeBack(fallback) == IF fallback /\ ~TEST_PATTERN THEN FALSE ELSE fallback

\* the send of the blob is over: counters, probe back, await asyncio.sleep(0);
\* or the send raises ConnectionClosed because the transport closed meanwhile
ProducerSent(s) ==
  /\ ppc[s] = "send"
  /\ pmsg' = [pmsg EXCEPT ![s] = NoMsg]
  /\ blob' = [blob EXCEPT ![s] = NoBlob]
  /\ \/ /\ ppc' = [ppc EXCEPT ![s] = "ready"]
        /\ use_test_fallback' = [use_test_fallback EXCEPT ![s] = ProbeBack(@)]
     \/ /\ conn[s] # "open"               \* except ConnectionClosed: break
        /\ ppc' = [ppc EXCEPT ![s] = "returned"]
        /\ UNCHANGED use_test_fallback
  /\ UNCHANGED << TEST_PATTERN, bootVars, ema_depth, captures, last_capture, camVars,
                  paramVars, camHealth,
                  lastOk, conn, hpc, cpc, nsent, hmsg, cmsg >>

\* ------------------------------------------------------- control messages
\* a JSON field: omitted, a number, or a value float()/int() cannot convert
Absent    == [tag |-> "absent", v |-> 0]
NotNumber == [tag |-> "bad", v |-> 0]
Num(x)    == [tag |-> "num", v |-> x]

IndexInputs == {Absent, NotNumber} \cup {Num(i) : i \in Devices}

CtlMsg(c, i, e, n, f) ==
  [cmd |-> c, index |-> i, ema_alpha |-> e, clamp_near |-> n, clamp_far |-> f]

SetParamsMsg(e, n, f) == CtlMsg("set_params", Absent, e, n, f)

\* messages without fields: a binary message, text that is not JSON, JSON that
\* is not an object, an object with an unknown cmd, list_cams, get_params
Plain(c) == CtlMsg(c, Absent, Absent, Absent, Absent)

Malformed == {Plain(c) : c \in {"badjson", "nonobject", "unknown"}}
                \cup {CtlMsg("set_cam", NotNumber, Absent, Absent, Absent)}

\* what a viewer sends in Spec
Messages ==
       {Plain(c) : c \in {"binary", "badjson", "nonobject", "unknown",
                          "list_cams", "get_params"}}
  \cup {CtlMsg("set_cam", i, Absent, Absent, Absent) : i \in IndexInputs}
  \cup {SetParamsMsg(Num(500), Num(300), Num(100))}

\* what a viewer sends in ParamSpec: get_params, and set_params with every
\* combination of omitted, unconvertible, in-range and out-of-range fields
EmaInputs   == {Absent, NotNumber, Num(0 - 100), Num(500), Num(1500)}
NearInputs  == {Absent, Num(0 - 500), Num(300), Num(Absorbing)}
FarInputs   == {Absent, NotNumber, Num(100), Num(2000)}

ParamMessages ==
  {Plain("get_params")}
     \cup {SetParamsMsg(e, n, f) : e \in EmaInputs, n \in NearInputs, f \in FarInputs}

Max(a, b) == IF b > a THEN b ELSE a
Min(a, b) == IF b < a THEN b ELSE a

\* x + 1e-3 in float64
FloatAdd(x, eps) == IF x >= Absorbing THEN x ELSE x + eps

\* float(x) if x is not None else <current>
FloatOr(f, current) == IF f.tag = "num" THEN f.v ELSE current

\* _clamp_params raises when a float() conversion does
ClampRaises(ema, near_, far_) ==
  ema.tag = "bad" \/ near_.tag = "bad" \/ far_.tag = "bad"

\* _clamp_params(ema, near_, far_)
ClampParams(ema, near_, far_) ==
  LET e0 == FloatOr(ema, EMA_ALPHA)
      n0 == FloatOr(near_, CLAMP_NEAR)
      f0 == FloatOr(far_, CLAMP_FAR)
      f1 == IF f0 <= n0 THEN FloatAdd(n0, Epsilon) ELSE f0
      e1 == Max(0, Min(One, e0))
      n1 == Max(0, n0)
      f2 == Max(FloatAdd(n1, Epsilon), f1)
  IN  << e1, n1, f2 >>

\* --------------------------------------------------------------- consumer
\* await send_json(ws, obj) from control_loop
Reply(s, r) ==
  /\ cmsg' = [cmsg EXCEPT ![s] = r]
  /\ Written(s)
  /\ cpc' = [cpc EXCEPT ![s] = "reply"]

\* the message is skipped: continue, or no branch of the if/elif chain matches
Ignore(s) == UNCHANGED << cmsg, nsent, cpc >>

\* an exception leaves control_loop
ConsumerRaise(s) ==
  /\ cpc' = [cpc EXCEPT ![s] = "raised"]
  /\ UNCHANGED << cmsg, nsent >>

\* open_camera(index): the old handle is released first, then the new device
\* is opened; ok says whether it opens
OpenCamera(index, ok) ==
  IF ok
    THEN /\ cap' = "open"
         /\ resolved_index' = index
    ELSE /\ cap' = (IF cap = "none" THEN "none" ELSE "released")
         /\ UNCHANGED resolved_index

\* cmd == "set_cam"
SetCam(s, m) ==
  IF m.index.tag = "bad"
    THEN /\ ConsumerRaise(s)               \* int(...) raises outside the try
         /\ UNCHANGED camVars
    ELSE LET idx == IF m.index.tag = "absent" THEN resolved_index ELSE m.index.v
         IN  IF TEST_PATTERN
               THEN /\ UNCHANGED camVars
                    /\ Reply(s, Msg("set_cam_ok", "", << idx >>))
               ELSE \E ok \in BOOLEAN :
                      /\ OpenCamera(idx, ok)
                      /\ Reply(s, IF ok THEN Msg("set_cam_ok", "", << idx >>)
                                        ELSE Msg("set_cam_err", "", <<>>))

\* mutant of SetParams: ema_alpha is stored as soon as it is converted, before
\* the conversion of another field raises
SetParamsEager(s, m) ==
  IF ClampRaises(m.ema_alpha, m.clamp_near, m.clamp_far)
    THEN /\ Reply(s, Msg("params_err", "", <<>>))
         /\ EMA_ALPHA' = FloatOr(m.ema_alpha, EMA_ALPHA)
         /\ UNCHANGED << CLAMP_NEAR, CLAMP_FAR, lastOk >>
    ELSE LET p == ClampParams(m.ema_alpha, m.clamp_near, m.clamp_far)
         IN  /\ EMA_ALPHA'  = p[1]
             /\ CLAMP_NEAR' = p[2]
             /\ CLAMP_FAR'  = p[3]
             /\ Reply(s, Msg("params_ok", "", << EMA_ALPHA', CLAMP_NEAR', CLAMP_FAR' >>))
             /\ lastOk' = cmsg'[s].vals

\* mutant of SetParams: the write is torn, clamp_far keeps its old value
SetParamsTorn(s, m) ==
  IF ClampRaises(m.ema_alpha, m.clamp_near, m.clamp_far)
    THEN /\ Reply(s, Msg("params_err", "", <<>>))
         /\ UNCHANGED << paramVars, lastOk >>
    ELSE LET p == ClampParams(m.ema_alpha, m.clamp_near, m.clamp_far)
         IN  /\ EMA_ALPHA'  = p[1]
             /\ CLAMP_NEAR' = p[2]
             /\ CLAMP_FAR'  = CLAMP_FAR
             /\ Reply(s, Msg("params_ok", "", << EMA_ALPHA', CLAMP_NEAR', CLAMP_FAR' >>))
             /\ lastOk' = cmsg'[s].vals

\* cmd == "set_params"
SetParams(s, m) ==
  IF ClampRaises(m.ema_alpha, m.clamp_near, m.clamp_far)
    THEN /\ Reply(s, Msg("params_err", "", <<>>))
         /\ UNCHANGED << paramVars, lastOk >>
    ELSE LET p == ClampParams(m.ema_alpha, m.clamp_near, m.clamp_far)
         IN  /\ EMA_ALPHA'  = p[1]
             /\ CLAMP_NEAR' = p[2]
             /\ CLAMP_FAR'  = p[3]
             /\ Reply(s, Msg("params_ok", "", << EMA_ALPHA', CLAMP_NEAR', CLAMP_FAR' >>))
             /\ lastOk' = cmsg'[s].vals

\* one message leaves `async for msg in ws` and is handled up to the next await
ControlMsg(s, m) ==
  /\ cpc[s] = "recv"
  /\ conn[s] = "open"
  /\ CASE m.cmd \in {"binary", "badjson", "unknown"} ->
            /\ Ignore(s)
            /\ UNCHANGED << camVars, paramVars, lastOk >>
       [] m.cmd = "nonobject" ->                 \* data.get raises AttributeError
            /\ ConsumerRaise(s)
            /\ UNCHANGED << camVars, paramVars, lastOk >>
       [] m.cmd = "list_cams" ->
            /\ Reply(s, Msg("cams", "", << resolved_index >>))
            /\ UNCHANGED << camVars, paramVars, lastOk >>
       [] m.cmd = "set_cam" ->
            /\ SetCam(s, m)
            /\ UNCHANGED << paramVars, lastOk >>
       [] m.cmd = "get_params" ->
            /\ Reply(s, ParamsMsg)
            /\ UNCHANGED << camVars, paramVars, lastOk >>
       [] m.cmd = "set_params" ->
            /\ SetParams(s, m)
            /\ UNCHANGED camVars
  /\ UNCHANGED << TEST_PATTERN, bootVars, frameVars, camHealth, conn, hpc, ppc, use_test_fallback,
                  hmsg, pmsg >>

\* the send of the reply is over (send_json swallows its failure); next recv
ConsumerSent(s) ==
  /\ cpc[s] = "reply"
  /\ cpc' = [cpc EXCEPT ![s] = "recv"]
  /\ cmsg' = [cmsg EXCEPT ![s] = NoMsg]
  /\ UNCHANGED << TEST_PATTERN, bootVars, frameVars, camVars, paramVars, camHealth, lastOk, conn, hpc,
                  ppc, use_test_fallback, nsent, hmsg, pmsg >>

\* `async for msg in ws` on a closed transport: the loop ends after a close
\* frame, ConnectionClosedError is raised without one
ConsumerClosed(s) ==
  /\ cpc[s] = "recv"
  /\ conn[s] \in {"closed_ok", "closed_err"}
  /\ cpc' = [cpc EXCEPT ![s] = IF conn[s] = "closed_ok" THEN "returned" ELSE "raised"]
  /\ UNCHANGED << TEST_PATTERN, bootVars, frameVars, camVars, paramVars, camHealth, lastOk, conn, hpc,
                  ppc, use_test_fallback, nsent, hmsg, pmsg, cmsg >>

\* ------------------------------------------------------------------ Next
\* the steps of the viewers in S, who send the messages in M
NextFor(S, M) ==
  \/ \E s \in S : Connect(s)
  \/ \E s \in S, how \in {"closed_ok", "closed_err"} : ClientClose(s, how)
  \/ \E h \in {"ok", "noframe", "raise"} : EnvCam(h)
  \/ \E s \in S : HandlerHello(s)
  \/ \E s \in S : HandlerParams(s)
  \/ \E s \in S : HandlerSpawn(s)
  \/ \E s \in S : HandlerWake(s)
  \/ \E s \in S : ProducerIterate(s)
  \/ \E s \in S : ProducerWake(s)
  \/ \E s \in S : ProducerSent(s)
  \/ \E s \in S, m \in M : ControlMsg(s, m)
  \/ \E s \in S : ConsumerSent(s)
  \/ \E s \in S : ConsumerClosed(s)

Next == NextFor(Sessions, Messages)

Spec == Init /\ [][Next]_vars

\* ------------------------------------------------------------- LiveSpec
\* One viewer, with the scheduling asyncio guarantees: a task that can run is
\* run, a timer fires, a send on the transport ends.  Nothing is assumed of
\* the environment (the viewer, the device).
LiveSessions == {"v1"}

LiveNext == NextFor(LiveSessions, Messages)

Fairness ==
  \A s \in LiveSessions :
    /\ WF_vars(HandlerHello(s))
    /\ WF_vars(HandlerParams(s))
    /\ WF_vars(HandlerSpawn(s))
    /\ WF_vars(HandlerWake(s))
    /\ WF_vars(ProducerIterate(s))
    /\ WF_vars(ProducerWake(s))
    /\ WF_vars(ProducerSent(s))
    /\ WF_vars(ConsumerSent(s))
    /\ WF_vars(ConsumerClosed(s))

LiveSpec == Init /\ [][LiveNext]_vars /\ Fairness

\* ------------------------------------------------------------ ParamSpec
\* The control channel of two connected viewers after their handshakes: any
\* sequence of get_params and set_params, from either viewer, with every
\* combination of fields of ParamMessages.
InitParam ==
  /\ TEST_PATTERN \in BOOLEAN
  /\ resolved_index = WEBCAM_INDEX
  /\ cap \in (IF TEST_PATTERN THEN {"none"} ELSE {"none", "open"})
  /\ EMA_ALPHA  = DEFAULT_EMA_ALPHA
  /\ CLAMP_NEAR = DEFAULT_CLAMP_NEAR
  /\ CLAMP_FAR  = DEFAULT_CLAMP_FAR
  /\ camHealth = "ok"
  /\ conn = [s \in Sessions |-> "open"]
  /\ hpc  = [s \in Sessions |-> "waiting"]
  /\ ppc  = [s \in Sessions |-> "start"]
  /\ cpc  = [s \in Sessions |-> "recv"]
  /\ use_test_fallback = [s \in Sessions |-> FALSE]
  /\ nsent = [s \in Sessions |-> 2]
  /\ hmsg  = [s \in Sessions |-> NoMsg]
  /\ pmsg  = [s \in Sessions |-> NoMsg]
  /\ cmsg  = [s \in Sessions |-> NoMsg]
  /\ lastOk = <<>>
  /\ ema_depth = NoEma
  /\ captures = 0
  /\ blob = [s \in Sessions |-> NoBlob]
  /\ last_capture = [s \in Sessions |-> 0]
  /\ WEBCAM_NAME = <<>>
  /\ devs = <<>>
  /\ fallback_index = WEBCAM_INDEX
  /\ bpc = "done"

ParamNext ==
  \/ \E s \in Sessions, m \in ParamMessages : ControlMsg(s, m)
  \/ \E s \in Sessions : ConsumerSent(s)

ParamSpec == InitParam /\ [][ParamNext]_vars

\* --------------------------------------------------------- frame content
\* A depth array is followed through two of its pixels; depth values and
\* ema_alpha are thousandths.  Array shapes are (rows, columns).

\* the frame of device i after cv2.resize to TARGET_WIDTH: 1280x720 devices
\* give (360, 640), 640x480 devices give (480, 640)
ShapeOf(i) == IF i % 2 = 0 THEN [h |-> 360, w |-> TARGET_WIDTH]
                           ELSE [h |-> 480, w |-> TARGET_WIDTH]

\* what the estimator returns for the two pixels: flat, rising, falling
RawFrames == { << 1, 1 >>, << 0, 2 >>, << 2, 1 >> }

\* len(json.dumps(header)): it varies with the digits of ts and of the
\* intrinsics; every residue modulo 4 is covered
HeaderLens == 128 .. 131

\* normalize_depth(d)
normalize_depth(raw) ==
  LET mn   == Min(raw[1], raw[2])
      d    == [i \in 1 .. 2 |-> raw[i] - mn]
      maxv == Max(d[1], d[2])
      frac == [i \in 1 .. 2 |-> IF maxv > 0 THEN (d[i] * One) \div maxv ELSE d[i]]
  IN  [i \in 1 .. 2 |-> CLAMP_NEAR + ((CLAMP_FAR - CLAMP_NEAR) * frac[i]) \div One]

\* numpy broadcasting of two shapes: a dimension pairs with an equal one or
\* with 1; anything else raises ValueError
Broadcastable(a, b) ==
  /\ a.h = b.h \/ a.h = 1 \/ b.h = 1
  /\ a.w = b.w \/ a.w = 1 \/ b.w = 1

\* EMA_ALPHA * d_norm + (1.0 - EMA_ALPHA) * ema_depth, or d_norm the first time
Smooth(f, d) ==
  IF ema_depth = NoEma
    THEN [h |-> f.h, w |-> f.w, v |-> d]
    ELSE [h |-> Max(f.h, ema_depth.h), w |-> Max(f.w, ema_depth.w),
          v |-> [i \in 1 .. 2 |->
                   (EMA_ALPHA * d[i] + (One - EMA_ALPHA) * ema_depth.v[i]) \div One]]

\* len(a[::STRIDE]) for an axis of n entries
Strided(n) == (n + STRIDE - 1) \div STRIDE

\* mutant of Pad: the result is not masked to two bits
PadUnmasked(hlen) == 4 - (hlen % 4)

\* pad = (4 - (len(header_bytes) & 3)) & 3
Pad(hlen) == (4 - (hlen % 4)) % 4

\* header, header_len, pad_bytes, depth_bytes, rgb_bytes and their join: the
\* header takes w, h from the depth grid (dh x dw); the colour grid has
\* ch x cw rows of 3 bytes
Encode(kind, capture, dh, dw, ch, cw, hlen, d) ==
  [kind |-> kind, capture |-> capture, w |-> dw, h |-> dh, dh |-> dh, dw |-> dw,
   ch |-> ch, cw |-> cw, hlen |-> hlen, pad |-> Pad(hlen),
   len |-> 4 + hlen + Pad(hlen) + 4 * (dh * dw) + 3 * (ch * cw), d |-> d,
   used |-> << EMA_ALPHA, CLAMP_NEAR, CLAMP_FAR >>]

\* make_test_pattern(t0, w // STRIDE, h // STRIDE) with w = TARGET_WIDTH and
\* h = int(TARGET_WIDTH * 9 / 16): Z runs from 1.0 to 2.0 across the grid and
\* is clipped to the clamp range
SyntheticBlob(hlen) ==
  LET ws == TARGET_WIDTH \div STRIDE
      hs == ((TARGET_WIDTH * 9) \div 16) \div STRIDE
      Z  == << One, 2 * One >>
      d  == [i \in 1 .. 2 |-> Min(Max(Z[i], CLAMP_NEAR), CLAMP_FAR)]
  IN  Encode("synthetic", 0, hs, ws, hs, ws, hlen, d)

\* the real path after the smoothing: d_norm = ema_depth[::STRIDE, ::STRIDE],
\* rgb = rgb_full[::STRIDE, ::STRIDE]
RealBlob(f, ema, capture, hlen) ==
  Encode("real", capture, Strided(ema.h), Strided(ema.w),
         Strided(f.h), Strided(f.w), hlen, ema.v)

\* one pass of frame_stream with the content of its frame: raw is the
\* estimator's output for the frame read, hlen the length of the header JSON
ProducerFrame(s, raw, hlen) ==
  LET f    == ShapeOf(resolved_index)
      real == ~Fallback(s) /\ cap # "none" /\ ReadOutcome = "frame"
      fits == ema_depth = NoEma \/ Broadcastable(f, ema_depth)
      ema  == Smooth(f, normalize_depth(raw))
  IN  /\ real => captures < MaxCaptures
      /\ ProducerPass(s, IF real /\ ~fits THEN "exception" ELSE ReadOutcome)
      /\ captures' = IF real THEN captures + 1 ELSE captures
      /\ ema_depth' = IF real /\ fits THEN ema ELSE ema_depth
      /\ blob' = IF conn[s] # "open" \/ (~Fallback(s) /\ ~(real /\ fits))
                   THEN blob
                 ELSE IF Fallback(s)
                   THEN [blob EXCEPT ![s] = SyntheticBlob(hlen)]
                   ELSE [blob EXCEPT ![s] = RealBlob(f, ema, captures + 1, hlen)]
      /\ last_capture' = IF real /\ fits
                           THEN [last_capture EXCEPT ![s] = captures + 1]
                           ELSE last_capture

\* ------------------------------------------------- FrameSpec, EncodeSpec
\* Two connected viewers after their handshakes, streaming frames with their
\* content: estimator outputs from R, header lengths from H, control messages
\* from M.
FrameNextFor(R, H, M) ==
  \/ \E s \in Sessions, raw \in R, hlen \in H : ProducerFrame(s, raw, hlen)
  \/ \E s \in Sessions : ProducerWake(s)
  \/ \E s \in Sessions : ProducerSent(s)
  \/ \E s \in Sessions, m \in M : ControlMsg(s, m)
  \/ \E s \in Sessions : ConsumerSent(s)

\* FrameSpec: the depth values, under parameter changes from either viewer
FrameMessages ==
  {SetParamsMsg(Num(500), Num(300), Num(100)), SetParamsMsg(Absent, Num(0), Num(2000))}

FrameNext == FrameNextFor(RawFrames, {128}, FrameMessages)

FrameSpec == InitParam /\ [][FrameNext]_vars

\* EncodeSpec: the layout of the blob, under camera switches from either viewer
EncodeMessages == {CtlMsg("set_cam", Num(i), Absent, Absent, Absent) : i \in Devices}

EncodeNext == FrameNextFor({<< 0, 2 >>}, HeaderLens, EncodeMessages)

EncodeSpec == InitParam /\ [][EncodeNext]_vars

\* AlphaSpec: the smoothing, under set_params messages that carry ema_alpha
\* only: zero, below zero, above one
AlphaMessages ==
  {SetParamsMsg(e, Absent, Absent) : e \in {Num(0), Num(0 - 100), Num(1500)}}

AlphaNext == FrameNextFor(RawFrames, {128}, AlphaMessages)

AlphaSpec == InitParam /\ [][AlphaNext]_vars

\* ------------------------------------------------------------ SwitchSpec
\* Two connected viewers after their handshakes, either of them switching
\* cameras while the device delivers frames or does not, with the scheduling
\* asyncio guarantees for their tasks.
SwitchMessages == {CtlMsg("set_cam", Num(i), Absent, Absent, Absent) : i \in Devices}

SwitchNext ==
  \/ \E h \in {"ok", "noframe"} : EnvCam(h)
  \/ \E s \in Sessions : ProducerIterate(s)
  \/ \E s \in Sessions : ProducerWake(s)
  \/ \E s \in Sessions : ProducerSent(s)
  \/ \E s \in Sessions, m \in SwitchMessages : ControlMsg(s, m)
  \/ \E s \in Sessions : ConsumerSent(s)

SwitchFairness ==
  \A s \in Sessions :
    /\ WF_vars(ProducerIterate(s))
    /\ WF_vars(ProducerWake(s))
    /\ WF_vars(ProducerSent(s))
    /\ WF_vars(ConsumerSent(s))

SwitchSpec == InitParam /\ [][SwitchNext]_vars /\ SwitchFairness

\* ----------------------------------------------------------- ResolveSpec
\* Startup with the synthetic-pattern toggle off: the name preference is
\* resolved against the device listing, then the camera is opened.
\* A string is a sequence of characters: 0 is a space, 1 is "a", 11 is "A".
Space == 0
Letters == {1, 11}
UpperBase == 10

\* the strings of the characters in C with at most n characters
Strings(C, n) == UNION {[1 .. k -> C] : k \in 0 .. n}

\* str.lower()
Lower(str) == [i \in 1 .. Len(str) |-> IF str[i] > UpperBase THEN str[i] - UpperBase
                                                             ELSE str[i]]

\* str.strip()
RECURSIVE Strip(_)
Strip(str) ==
  IF str = <<>> THEN str
  ELSE IF Head(str) = Space THEN Strip(Tail(str))
  ELSE IF str[Len(str)] = Space THEN Strip(SubSeq(str, 1, Len(str) - 1))
  ELSE str

\* needle in hay
Contains(hay, needle) ==
  \E i \in 1 .. (Len(hay) - Len(needle) + 1) :
    SubSeq(hay, i, i + Len(needle) - 1) = needle

\* for idx, nm in listing: if <match>: return idx -- the first of the places
\* that match
First(places) == CHOOSE i \in places : \A j \in places : i <= j

\* mutant of resolve_webcam_index: one loop that takes the first device
\* matching either way
resolve_one_loop(name_pref, listing, fallback) ==
  LET pref   == Strip(name_pref)
      either == {i \in 1 .. Len(listing) :
                   \/ listing[i].name = pref
                   \/ Contains(Lower(listing[i].name), Lower(pref))}
  IN  IF pref = <<>> \/ listing = <<>> THEN fallback
      ELSE IF either # {} THEN listing[First(either)].idx
      ELSE fallback

\* resolve_webcam_index(name_pref, fallback_index), listing being what
\* enumerate_avfoundation_devices() returns
resolve_webcam_index(name_pref, listing, fallback) ==
  LET pref   == Strip(name_pref)
      exact  == {i \in 1 .. Len(listing) : listing[i].name = pref}
      inside == {i \in 1 .. Len(listing) :
                   Contains(Lower(listing[i].name), Lower(pref))}
  IN  IF pref = <<>> THEN fallback
      ELSE IF listing = <<>> THEN fallback
      ELSE IF exact # {} THEN listing[First(exact)].idx
      ELSE IF inside # {} THEN listing[First(inside)].idx
      ELSE fallback

\* device names as the listing gives them (stripped, not empty); device k of
\* the listing has index k - 1
DeviceNames == Strings(Letters, MaxName) \ {<<>>}

Listings ==
  UNION {[1 .. k -> DeviceNames] : k \in 0 .. MaxDevs}

InitResolve ==
  /\ TEST_PATTERN = FALSE
  /\ \E raw \in Strings(Letters \cup {Space}, MaxName) : WEBCAM_NAME = Strip(raw)
  /\ \E names \in Listings :
       devs = [k \in 1 .. Len(names) |-> [idx |-> k - 1, name |-> names[k]]]
  /\ fallback_index \in {WEBCAM_INDEX, MaxDevs + 1}
  /\ bpc = "boot"
  /\ resolved_index = fallback_index
  /\ cap = "none"
  /\ EMA_ALPHA  = DEFAULT_EMA_ALPHA
  /\ CLAMP_NEAR = DEFAULT_CLAMP_NEAR
  /\ CLAMP_FAR  = DEFAULT_CLAMP_FAR
  /\ camHealth = "ok"
  /\ conn = [s \in Sessions |-> "none"]
  /\ hpc  = [s \in Sessions |-> "idle"]
  /\ ppc  = [s \in Sessions |-> "none"]
  /\ cpc  = [s \in Sessions |-> "none"]
  /\ use_test_fallback = [s \in Sessions |-> FALSE]
  /\ nsent = [s \in Sessions |-> 0]
  /\ hmsg  = [s \in Sessions |-> NoMsg]
  /\ pmsg  = [s \in Sessions |-> NoMsg]
  /\ cmsg  = [s \in Sessions |-> NoMsg]
  /\ lastOk = <<>>
  /\ ema_depth = NoEma
  /\ captures = 0
  /\ blob = [s \in Sessions |-> NoBlob]
  /\ last_capture = [s \in Sessions |-> 0]

\* resolved_index = resolve_webcam_index(WEBCAM_NAME, WEBCAM_INDEX)
Resolve ==
  /\ bpc = "boot"
  /\ resolved_index' = resolve_webcam_index(WEBCAM_NAME, devs, fallback_index)
  /\ bpc' = "resolved"
  /\ UNCHANGED << TEST_PATTERN, WEBCAM_NAME, devs, fallback_index, frameVars, cap,
                  paramVars, camHealth, lastOk, sessionVars >>

\* try: open_camera(resolved_index) except: log
StartupOpen(ok) ==
  /\ bpc = "resolved"
  /\ cap' = IF ok THEN "open" ELSE "none"
  /\ bpc' = "done"
  /\ UNCHANGED << TEST_PATTERN, WEBCAM_NAME, devs, fallback_index, frameVars,
                  resolved_index, paramVars, camHealth, lastOk, sessionVars >>

ResolveNext ==
  \/ Resolve
  \/ \E ok \in BOOLEAN : StartupOpen(ok)

ResolveSpec == InitResolve /\ [][ResolveNext]_vars

\* ================================================================ claims
Alive(pc) == pc \in Runnable \cup Sleeping \cup {"send"}

\* C1: on every connection the first message written is the binary hello with
\* header length 0 and no payload, the second is the text message "params"
\* carrying the ParameterSet of that moment, and both are written by the
\* handler: no frame of the producer and no reply of the consumer comes before.
C1_HandshakeFirst ==
  [][\A s \in Sessions :
       (nsent[s] < 2 /\ nsent'[s] # nsent[s]) =>
          /\ pmsg'[s] = NoMsg
          /\ cmsg'[s] = NoMsg
          /\ hmsg'[s] = IF nsent[s] = 0
                          THEN [type |-> "hello", src |-> "", vals |-> << 0 >>]
                          ELSE [type |-> "params", src |-> "",
                                vals |-> << EMA_ALPHA, CLAMP_NEAR, CLAMP_FAR >>]]_vars

\* C1 witness: a viewer connects after the ParameterSet was changed; its hello
\* is out and its second message, announcing the changed values, is being sent
C1_Witness ==
  \E s \in Sessions :
    /\ nsent[s] = 2
    /\ hpc[s] = "params_sent"
    /\ hmsg[s].type = "params"
    /\ hmsg[s].vals = << 500, 300, 301 >>

\* C2: while every read of the open device returns "no frame" (toggle off),
\* the session becomes Degraded (its producer switches to the synthetic
\* generator).
MissingFrames(s) ==
  /\ ~TEST_PATTERN
  /\ cap = "open" /\ camHealth = "noframe"
  /\ conn[s] = "open"
  /\ Alive(ppc[s])

C2_PersistentMissDegrades ==
  \A s \in Sessions :
    MissingFrames(s) ~> (use_test_fallback[s] \/ ~MissingFrames(s))

\* C3: while there is no camera handle (toggle off), the session escalates to
\* the synthetic generator: a synthetic frame is sent.
NoHandle(s) ==
  /\ ~TEST_PATTERN
  /\ cap = "none"
  /\ conn[s] = "open"
  /\ Alive(ppc[s])

C3_NoHandleFallsBack ==
  \A s \in Sessions :
    NoHandle(s) ~> (pmsg[s] = FrameMsg("synthetic") \/ ~NoHandle(s))

\* C4: a pass of the producer in which the real pipeline raises leaves the
\* session Degraded, its producer alive, its connection as it was and its
\* handler waiting; the next pass of a Degraded session sends a synthetic frame
\* (unless the viewer has gone); and while the pipeline keeps raising on an
\* open connection the session sends frames again and again.
Raising(s) ==
  /\ ~TEST_PATTERN
  /\ cap = "open" /\ camHealth = "raise"
  /\ conn[s] = "open"
  /\ Alive(ppc[s])

C4_ExceptionDegrades ==
  /\ [][\A s \in Sessions :
          /\ (ProducerIterate(s) /\ ~Fallback(s) /\ cap = "open" /\ camHealth = "raise")
               => /\ use_test_fallback'[s]
                  /\ ppc'[s] = "sleep_exc"
                  /\ conn'[s] = conn[s]
                  /\ hpc'[s] = "waiting"
          /\ (ProducerIterate(s) /\ ppc[s] = "ready" /\ use_test_fallback[s])
               => \/ pmsg'[s] = [type |-> "frame", src |-> "synthetic", vals |-> <<>>]
                  \/ conn[s] # "open" /\ ppc'[s] = "returned"
          /\ (ProducerWake(s) /\ ppc[s] = "sleep_exc")
               => ppc'[s] = "ready" /\ use_test_fallback'[s]]_vars
  /\ [](\A s \in Sessions : ppc[s] = "sleep_exc" => use_test_fallback[s])
  /\ \A s \in Sessions :
       Raising(s) ~> (pmsg[s].type = "frame" \/ ~Raising(s))

\* C4 witness: the toggle is off, the pipeline is raising, and the session is
\* sending a synthetic frame on an open connection
C4_Witness ==
  \E s \in Sessions :
    /\ ~TEST_PATTERN /\ cap = "open" /\ camHealth = "raise"
    /\ conn[s] = "open"
    /\ ppc[s] = "send" /\ pmsg[s] = FrameMsg("synthetic")

\* C5: as soon as one of a session's two tasks has ended, by returning or by
\* raising, the handler's wait is over (so that it cancels the other task and
\* finishes).
C5_EitherEndCancels ==
  \A s \in Sessions :
    (hpc[s] = "waiting" /\ (Terminated(ppc[s]) \/ Terminated(cpc[s])))
       => WaitReturns(s)

\* C6: after the viewer's transport has closed, the handler eventually returns
\* with both tasks ended.
C6_CloseTerminates ==
  \A s \in Sessions :
    (conn[s] \in {"closed_ok", "closed_err"})
       ~> (hpc[s] \in {"done", "failed"} /\ ~Alive(ppc[s]) /\ cpc[s] # "recv")

\* C7: a text message that is not a well-formed command leaves the consumer
\* waiting for the next message, the producer where it was, and the
\* ParameterSet and the camera unchanged.
C7_MalformedIgnored ==
  [][\A s \in Sessions, m \in Malformed :
       ControlMsg(s, m) =>
          /\ cpc'[s] = "recv"
          /\ ppc'[s] = ppc[s]
          /\ UNCHANGED << paramVars, camVars >>]_vars

\* C8: handling a recognized command hands exactly one reply, of a type listed
\* for the command, to the transport before the next message is taken.
Recognized == {"list_cams", "get_params", "set_cam", "set_params"}

ReplyTypes(cmd) ==
  CASE cmd = "list_cams"  -> {"cams"}
    [] cmd = "get_params" -> {"params"}
    [] cmd = "set_cam"    -> {"set_cam_ok", "set_cam_err"}
    [] cmd = "set_params" -> {"params_ok", "params_err"}

C8_EveryCommandAnswered ==
  [][\A s \in Sessions, m \in Messages :
       (m.cmd \in Recognized /\ ControlMsg(s, m)) =>
          /\ cpc'[s] = "reply"
          /\ cmsg'[s].type \in ReplyTypes(m.cmd)]_vars

\* C9: the ParameterSet always satisfies 0 <= ema_alpha <= 1, clamp_near >= 0
\* and clamp_far > clamp_near.
C9_ParamsInvariant ==
  /\ 0 <= EMA_ALPHA /\ EMA_ALPHA <= 1000
  /\ CLAMP_NEAR >= 0
  /\ CLAMP_FAR > CLAMP_NEAR

\* C10: a get_params handled after a params_ok, with no set_params handled in
\* between, is answered with exactly the three values that params_ok reported.
C10_GetAfterSet ==
  [][\A s \in Sessions :
       (lastOk # <<>> /\ cmsg[s] = NoMsg /\ cmsg'[s].type = "params")
          => cmsg'[s].vals = lastOk]_vars

\* C10 witness: the scenario {0.5, 0.3, 0.1}: params_ok reported the corrected
\* clamp_far 0.301 and a get_params is being answered with it
C10_Witness ==
  \E s \in Sessions :
    /\ lastOk = << 500, 300, 301 >>
    /\ cpc[s] = "reply"
    /\ cmsg[s] = [type |-> "params", src |-> "", vals |-> << 500, 300, 301 >>]

\* C11: a set_cam that fails to open the requested device while a working
\* handle is open leaves that handle usable: the camera is still open after
\* the set_cam_err.
C11_FailedSwitchKeepsHandle ==
  [][\A s \in Sessions, m \in Messages :
       (/\ m.cmd = "set_cam"
        /\ ControlMsg(s, m)
        /\ cap = "open"
        /\ cmsg'[s].type = "set_cam_err")
          => cap' = "open"]_vars

\* C12: every frame being sent has total length 4 + headerLength + pad +
\* 4*w*h + 3*w*h, with pad in 0..3 making headerLength + pad a multiple of 4,
\* and the header's w, h are the dimensions of the depth grid and of the
\* colour grid, on the real and on the synthetic path.
C12_BlobLayout ==
  \A s \in Sessions :
    blob[s] # NoBlob =>
      LET b == blob[s]
      IN  /\ b.len = 4 + b.hlen + b.pad + 4 * b.w * b.h + 3 * b.w * b.h
          /\ b.pad \in 0 .. 3
          /\ (b.hlen + b.pad) % 4 = 0
          /\ b.w = b.dw /\ b.h = b.dh
          /\ b.w = b.cw /\ b.h = b.ch

\* C12 witness: a real frame of the 640x480 device with three bytes of padding
\* is being sent to one viewer while a synthetic frame is being sent to the other
C12_Witness ==
  \E s, t \in Sessions :
    /\ blob[s].kind = "real" /\ blob[s].h = 240 /\ blob[s].pad = 3
    /\ blob[t].kind = "synthetic"

\* C13: capture and estimation run once per tick and the frame is fanned out:
\* when a viewer on the real path is behind another one (the other has been
\* given a capture this viewer has not), its next real frame derives from a
\* capture already made and no new capture is invoked for it.
C13_CaptureFannedOut ==
  [][\A s, t \in Sessions :
       (/\ s # t
        /\ last_capture[t] < last_capture[s]
        /\ blob[t] = NoBlob /\ blob'[t].kind = "real")
          => /\ captures' = captures
             /\ blob'[t].capture <= captures]_vars

\* C14: the resolved index is the index of the first device whose name equals
\* the preference exactly, even if an earlier device contains it; failing that,
\* of the first device whose lower-cased name contains the lower-cased
\* preference; failing that, or with an empty preference or an empty listing,
\* the configured index.
ExactAt(i) == devs[i].name = WEBCAM_NAME

InsideAt(i) == Contains(Lower(devs[i].name), Lower(WEBCAM_NAME))

Places == 1 .. Len(devs)

C14_ResolveByName ==
  bpc = "resolved" =>
    IF WEBCAM_NAME = <<>> \/ devs = <<>>
      THEN resolved_index = fallback_index
    ELSE IF \E i \in Places : ExactAt(i)
      THEN \E i \in Places :
             /\ ExactAt(i) /\ \A j \in 1 .. (i - 1) : ~ExactAt(j)
             /\ resolved_index = devs[i].idx
    ELSE IF \E i \in Places : InsideAt(i)
      THEN \E i \in Places :
             /\ InsideAt(i) /\ \A j \in 1 .. (i - 1) : ~InsideAt(j)
             /\ resolved_index = devs[i].idx
    ELSE resolved_index = fallback_index

\* C14 witness: the listing is "aa", "a", the preference is "a": the second
\* device matches exactly and is chosen although the first contains the name
C14_Witness ==
  /\ bpc = "resolved"
  /\ WEBCAM_NAME = << 1 >>
  /\ Len(devs) = 2 /\ devs[1].name = << 1, 1 >> /\ devs[2].name = << 1 >>
  /\ resolved_index = 1

\* C15: every depth value of a frame being sent lies within [clamp_near,
\* clamp_far] of the ParameterSet in force when the frame was produced.
C15_DepthWithinClamp ==
  \A s \in Sessions :
    blob[s] # NoBlob =>
      \A i \in 1 .. 2 :
        /\ blob[s].used[2] <= blob[s].d[i]
        /\ blob[s].d[i] <= blob[s].used[3]

\* C16: a Degraded session (toggle off) returns to the real pipeline only when
\* the real pipeline is usable: the camera is open and the device and the
\* estimator are not failing.
C16_ProbeBackWhenUsable ==
  [][\A s \in Sessions :
       (~TEST_PATTERN /\ use_test_fallback[s] /\ ~use_test_fallback'[s])
          => (cap = "open" /\ camHealth = "ok")]_vars

\* C17: the ParameterSet changes only by one set_params of one viewer, all
\* three fields at once to the values that message asks for; and the depth
\* values of every real frame are those computed from the estimator's output
\* and the previous ema_depth with the three values of one ParameterSet, the
\* one in force during the pass.
FrameWith(alpha, near, far, raw, old) ==
  LET lo   == IF raw[1] < raw[2] THEN raw[1] ELSE raw[2]
      hi   == IF raw[1] < raw[2] THEN raw[2] ELSE raw[1]
      frac == [i \in 1 .. 2 |-> IF hi > lo THEN ((raw[i] - lo) * 1000) \div (hi - lo) ELSE 0]
      norm == [i \in 1 .. 2 |-> near + ((far - near) * frac[i]) \div 1000]
  IN  IF old = <<>> THEN norm
      ELSE [i \in 1 .. 2 |-> (alpha * norm[i] + (1000 - alpha) * old[i]) \div 1000]

C17_OneParameterSetPerFrame ==
  /\ [][paramVars' # paramVars =>
          \E s \in Sessions, m \in FrameMessages :
            /\ ControlMsg(s, m)
            /\ << EMA_ALPHA', CLAMP_NEAR', CLAMP_FAR' >>
                 = ClampParams(m.ema_alpha, m.clamp_near, m.clamp_far)]_vars
  /\ [][\A s \in Sessions :
          (blob[s] = NoBlob /\ blob'[s].kind = "real") =>
             /\ blob'[s].used = << EMA_ALPHA, CLAMP_NEAR, CLAMP_FAR >>
             /\ \E raw \in RawFrames :
                  blob'[s].d = FrameWith(EMA_ALPHA, CLAMP_NEAR, CLAMP_FAR,
                                         raw, ema_depth.v)]_vars

\* C17 witness: one viewer's set_params has just been answered with params_ok
\* and the other viewer is being sent a real frame smoothed under that
\* ParameterSet over earlier frames
C17_Witness ==
  \E s, t \in Sessions :
    /\ s # t
    /\ cpc[t] = "reply" /\ cmsg[t].type = "params_ok"
    /\ blob[s].kind = "real" /\ blob[s].used = cmsg[t].vals
    /\ blob[s].capture >= 2

\* C18: whatever the producers are doing, a viewer whose consumer awaits a
\* message can have a set_cam handled; a set_cam answered set_cam_ok has opened
\* the camera; a pass that gets no frame leaves the producer waiting on a
\* timer; and once the camera is open and delivering, every running producer
\* sends a real frame, unless the camera fails or is lost again first.
Usable == ~TEST_PATTERN /\ cap = "open" /\ camHealth = "ok"

C19_FallbackPerSession ==
  [][\A s \in Sessions :
       ProducerIterate(s) =>
         /\ \A t \in Sessions \ {s} : use_test_fallback'[t] = use_test_fallback[t]
         /\ (ppc[s] = "start" /\ ~TEST_PATTERN) =>
              /\ pmsg'[s] # FrameMsg("synthetic")
              /\ \/ ppc'[s] \in {"sleep_nocap", "sleep_miss", "sleep_exc", "returned"}
                 \/ pmsg'[s] = FrameMsg("real")]_vars

\* C19 witness: one session is Degraded after a pipeline exception while the
\* other session, on the real path, is being sent a real frame
C19_Witness ==
  \E s, t \in Sessions :
    /\ s # t
    /\ ~TEST_PATTERN
    /\ use_test_fallback[s] /\ ppc[s] = "sleep_exc"
    /\ ~use_test_fallback[t] /\ ppc[t] = "send" /\ pmsg[t] = FrameMsg("real")

C21_AlphaInUnitInterval ==
  [][\A s \in Sessions :
       last_capture'[s] # last_capture[s] =>
         IF ema_depth = NoEma
           THEN \E raw \in RawFrames : ema_depth'.v = normalize_depth(raw)
           ELSE EMA_ALPHA > 0 /\ EMA_ALPHA <= One]_vars

\* the set_params messages of ParamSpec with a field float() cannot convert
Unconvertible ==
  {m \in ParamMessages :
     m.cmd = "set_params" /\ ClampRaises(m.ema_alpha, m.clamp_near, m.clamp_far)}

\* C22: a set_params is answered with params_err exactly when one of its
\* fields cannot be converted, and that step leaves EMA_ALPHA, CLAMP_NEAR and
\* CLAMP_FAR as they were; whenever one of the three changes, the step is a
\* set_params answered with params_ok that carries the three stored values.
C22_ParamsErrKeepsAll ==
  [][\A s \in Sessions :
       /\ (cmsg[s] = NoMsg /\ cmsg'[s].type = "params_err") =>
            /\ UNCHANGED paramVars
            /\ \E m \in Unconvertible : ControlMsg(s, m)
       /\ (cmsg[s] = NoMsg /\ cmsg'[s].type \notin {"none", "params_err"}) =>
            \A m \in Unconvertible : ~ControlMsg(s, m)
       /\ (cmsg'[s] # cmsg[s] /\ paramVars' # paramVars) =>
            cmsg'[s] = Msg("params_ok", "", << EMA_ALPHA', CLAMP_NEAR', CLAMP_FAR' >>)]_vars

\* C22 witness: a viewer is being answered params_err while the ParameterSet
\* in force is the one an earlier set_params stored, not the defaults
C22_Witness ==
  \E s \in Sessions :
    /\ cmsg[s].type = "params_err"
    /\ lastOk = << EMA_ALPHA, CLAMP_NEAR, CLAMP_FAR >>
    /\ EMA_ALPHA # DEFAULT_EMA_ALPHA
    /\ CLAMP_NEAR # DEFAULT_CLAMP_NEAR
    /\ CLAMP_FAR # DEFAULT_CLAMP_FAR

\* C23: a set_cam answered with set_cam_ok{index: i} leaves resolved_index = i,
\* with the synthetic-pattern toggle on or off; a set_cam answered with
\* set_cam_err leaves resolved_index as it was; nothing but a set_cam answered
\* with set_cam_ok changes resolved_index; and list_cams reports resolved_index
\* as selected.
C23_SelectedTracksSetCam ==
  [][/\ \A s \in Sessions :
          /\ (cmsg[s] = NoMsg /\ cmsg'[s].type = "set_cam_ok") =>
               resolved_index' = cmsg'[s].vals[1]
          /\ (cmsg[s] = NoMsg /\ cmsg'[s].type = "set_cam_err") =>
               resolved_index' = resolved_index
          /\ (cmsg[s] = NoMsg /\ cmsg'[s].type = "cams") =>
               /\ cmsg'[s].vals = << resolved_index >>
               /\ resolved_index' = resolved_index
     /\ resolved_index' # resolved_index =>
          \E s \in Sessions : cmsg[s] = NoMsg /\ cmsg'[s].type = "set_cam_ok"]_vars

====
